---- MODULE Spec2Model ----
(***************************************************************************)
(* Model of the multi-set alignment (MSA) metric helpers of src/eval.py:   *)
(* compute_msa_per_label, compute_msa and summarize_msa.                   *)
(*                                                                         *)
(* Numbers.  Coordinates are integers and the point sets below are chosen  *)
(* so that every Euclidean distance between two of their points is an      *)
(* integer; np.linalg.norm is computed as the square root of the sum of    *)
(* squares.  Means, ratios and their products are exact rationals, kept    *)
(* as reduced pairs <<numerator, denominator>>; <<1, 0>> is float("inf").  *)
(***************************************************************************)
EXTENDS Integers, Sequences, FiniteSets, TLC

\* ------------------------------------------------------------------ bounds
MaxPts == 2        \* longest point list of a label in a corpus sample
MaxSamples == 2    \* longest corpus (len(gt_list) = len(pred_list))
MaxSize == 6       \* largest corpus: label keys plus points, both sides
MaxN == 3          \* longest point list handed directly to the matcher
MaxPairsSize == 12 \* largest corpus of the matched-points corpora

Labels == {"A", "B"}
Points == {<<0, 0>>, <<3, 4>>}
MatchPoints == {<<0, 0>>, <<3, 0>>, <<0, 4>>}

\* ------------------------------------------------------------- arithmetic
Min(a, b) == IF a <= b THEN a ELSE b

RECURSIVE GCD(_, _)
GCD(a, b) == IF b = 0 THEN a ELSE GCD(b, a % b)

\* the float n / d, d > 0, n >= 0
Frac(n, d) ==
    IF d = 0 THEN <<0, 0>>
    ELSE LET g == GCD(n, d) IN <<n \div g, d \div g>>

Zero == <<0, 1>>
Inf == <<1, 0>>
\* marks a division that raises ZeroDivisionError
Raised == <<0, 0>>

IsNumber(q) == q[2] > 0

RAdd(p, q) == Frac(p[1] * q[2] + q[1] * p[2], p[2] * q[2])
RMul(p, q) == Frac(p[1] * q[1], p[2] * q[2])
\* p / q on floats: a zero divisor raises
RDiv(p, q) == IF q[1] = 0 THEN Raised ELSE Frac(p[1] * q[2], p[2] * q[1])
RPos(p) == p[1] > 0
FromInt(k) == <<k, 1>>

\* round(x, 2): to the nearest hundredth, an exact tie to the even one
\* (the ties within the bounds are dyadic, hence exact floats)
Round2(q) ==
    IF q[2] = 0 THEN q
    ELSE LET h == (100 * q[1]) \div q[2]
             rem == (100 * q[1]) % q[2]
             up == \/ 2 * rem > q[2]
                   \/ 2 * rem = q[2] /\ h % 2 = 1
         IN Frac(IF up THEN h + 1 ELSE h, 100)

Sqrt(s) == CHOOSE r \in 0..s : r * r <= s /\ (r + 1) * (r + 1) > s

\* np.linalg.norm(np.array(p) - np.array(q))
norm(p, q) == Sqrt((p[1] - q[1]) * (p[1] - q[1]) + (p[2] - q[2]) * (p[2] - q[2]))

RECURSIVE SumSeq(_)
SumSeq(s) == IF s = <<>> THEN 0 ELSE s[1] + SumSeq(Tail(s))

\* ------------------------------------------------- compute_msa_per_label
cost_matrix(gts, preds) ==
    [i \in 1..Len(gts) |-> [j \in 1..Len(preds) |-> norm(gts[i], preds[j])]]

\* One scan of the unvisited columns for the column of least path cost;
\* among equal costs a column without a row (a new sink) is preferred.
\* lowest = -1 stands for infinity.  Yields <<lowest, index>>.
RECURSIVE scan(_, _, _, _, _, _)
scan(remaining, spc, row4col, it, lowest, index) ==
    IF it > Len(remaining) THEN <<lowest, index>>
    ELSE IF \/ lowest = -1
            \/ spc[remaining[it]] < lowest
            \/ spc[remaining[it]] = lowest /\ row4col[remaining[it]] = 0
         THEN scan(remaining, spc, row4col, it + 1, spc[remaining[it]], it)
         ELSE scan(remaining, spc, row4col, it + 1, lowest, index)

\* the cost of reaching column j through row st.i
reduced(cost, u, v, st, j) == st.minVal + cost[st.i][j] - u[st.i] - v[j]

\* spc[j] = -1 stands for infinity
improves(cost, u, v, st, j) ==
    /\ \E k \in 1..Len(st.remaining) : st.remaining[k] = j
    /\ st.spc[j] = -1 \/ reduced(cost, u, v, st, j) < st.spc[j]

\* row st.i is scanned: the path costs of the unvisited columns are lowered
relax(cost, u, v, st) ==
    [st EXCEPT
        !.SR = @ \cup {st.i},
        !.spc = [j \in DOMAIN @ |->
                    IF improves(cost, u, v, st, j)
                    THEN reduced(cost, u, v, st, j) ELSE @[j]],
        !.path = [j \in DOMAIN @ |->
                    IF improves(cost, u, v, st, j) THEN st.i ELSE @[j]]]

\* column j = remaining[index] is visited: it is the sink when it has no row,
\* else the search goes on from its row
visit(st, row4col, lowest, index, j) ==
    [st EXCEPT
        !.minVal = lowest,
        !.SC = @ \cup {j},
        !.i = row4col[j],
        !.sink = IF row4col[j] = 0 THEN j ELSE 0,
        !.remaining = [k \in 1..(Len(@) - 1) |-> IF k = index THEN @[Len(@)] ELSE @[k]]]

pick(st, row4col, sc) == visit(st, row4col, sc[1], sc[2], st.remaining[sc[2]])

select(st, row4col) ==
    pick(st, row4col, scan(st.remaining, st.spc, row4col, 1, -1, 0))

\* Shortest augmenting path from row st.i to a column without a row.
RECURSIVE augmenting_path(_, _, _, _, _)
continue_path(cost, u, v, row4col, st) ==
    IF st.sink # 0 THEN st ELSE augmenting_path(cost, u, v, row4col, st)

augmenting_path(cost, u, v, row4col, st) ==
    continue_path(cost, u, v, row4col, select(relax(cost, u, v, st), row4col))

\* Flip the assignment along the path that ends in column j.
RECURSIVE augment(_, _, _, _, _)
augment(path, row4col, col4row, j, curRow) ==
    IF path[j] = curRow THEN [col4row EXCEPT ![path[j]] = j]
    ELSE augment(path, [row4col EXCEPT ![j] = path[j]],
                 [col4row EXCEPT ![path[j]] = j], col4row[path[j]], curRow)

row4col_of(col4row, nr, nc) ==
    [j \in 1..nc |-> IF \E i \in 1..nr : col4row[i] = j
                     THEN CHOOSE i \in 1..nr : col4row[i] = j ELSE 0]

start(curRow, nc) ==
    [i |-> curRow, minVal |-> 0, remaining |-> [k \in 1..nc |-> nc + 1 - k],
     SR |-> {}, SC |-> {}, spc |-> [j \in 1..nc |-> -1],
     path |-> [j \in 1..nc |-> 0], sink |-> 0]

\* the dual variables after the path ap from curRow
dual_u(u, ap, col4row, curRow) ==
    [i \in DOMAIN u |->
        IF i = curRow THEN u[i] + ap.minVal
        ELSE IF i \in ap.SR THEN u[i] + ap.minVal - ap.spc[col4row[i]]
        ELSE u[i]]

dual_v(v, ap) ==
    [j \in DOMAIN v |-> IF j \in ap.SC THEN v[j] - (ap.minVal - ap.spc[j]) ELSE v[j]]

RECURSIVE solve(_, _, _, _, _, _, _)
solve_path(cost, nr, nc, curRow, u, v, col4row, row4col, ap) ==
    solve(cost, nr, nc, curRow + 1, dual_u(u, ap, col4row, curRow), dual_v(v, ap),
          augment(ap.path, row4col, col4row, ap.sink, curRow))

solve_row(cost, nr, nc, curRow, u, v, col4row, row4col) ==
    solve_path(cost, nr, nc, curRow, u, v, col4row, row4col,
               augmenting_path(cost, u, v, row4col, start(curRow, nc)))

\* one row after the other gets a column; yields col4row
solve(cost, nr, nc, curRow, u, v, col4row) ==
    IF curRow > nr THEN col4row
    ELSE solve_row(cost, nr, nc, curRow, u, v, col4row, row4col_of(col4row, nr, nc))

zeros(k) == [i \in 1..k |-> 0]

transpose(cost) == [j \in 1..Len(cost[1]) |-> [i \in 1..Len(cost) |-> cost[i][j]]]

\* the k-th smallest element of a set of numbers
nth(S, k) == CHOOSE i \in S : Cardinality({x \in S : x < i}) = k - 1

\* the answer read off the solution of the transpose: rows ascending
by_rows(c4r) ==
    <<[k \in DOMAIN c4r |-> nth({c4r[j] : j \in DOMAIN c4r}, k)],
      [k \in DOMAIN c4r |->
          CHOOSE j \in DOMAIN c4r : c4r[j] = nth({c4r[i] : i \in DOMAIN c4r}, k)]>>

\* Nearest free column, row by row.
RECURSIVE greedy_rows(_, _, _)
greedy_rows(cost, i, cols) ==
    IF i > Len(cost) \/ Len(cols) = Len(cost[1]) THEN cols
    ELSE LET free == {j \in 1..Len(cost[1]) : \A k \in 1..Len(cols) : cols[k] # j}
             best == CHOOSE j \in free : \A k \in free :
                        cost[i][j] < cost[i][k] \/ (cost[i][j] = cost[i][k] /\ j <= k)
         IN greedy_rows(cost, i + 1, Append(cols, best))

greedy_pairs(cols) == <<[k \in 1..Len(cols) |-> k], cols>>

linear_sum_assignment_greedy(cost) ==
    IF Len(cost) = 0 \/ Len(cost[1]) = 0 THEN <<<<>>, <<>>>>
    ELSE greedy_pairs(greedy_rows(cost, 1, <<>>))

\* scipy.optimize.linear_sum_assignment on an n x m matrix of finite costs:
\* the rectangular shortest-augmenting-path solver, run on the transpose
\* when there are more rows than columns; yields <<row_ind, col_ind>> with
\* row_ind ascending.
linear_sum_assignment(cost) ==
    IF Len(cost) = 0 \/ Len(cost[1]) = 0 THEN <<<<>>, <<>>>>
    ELSE IF Len(cost[1]) < Len(cost)
    THEN by_rows(solve(transpose(cost), Len(cost[1]), Len(cost), 1,
                       zeros(Len(cost[1])), zeros(Len(cost)), zeros(Len(cost[1]))))
    ELSE <<[i \in 1..Len(cost) |-> i],
           solve(cost, Len(cost), Len(cost[1]), 1,
                 zeros(Len(cost)), zeros(Len(cost[1])), zeros(Len(cost)))>>

\* cost_matrix[gt_indices, pred_indices]
matched_distances(cost, a) == [k \in 1..Len(a[1]) |-> cost[a[1][k]][a[2][k]]]

per_label_swapped(n, m, a, distances) ==
    [average_euclidean_distance |->
        IF Len(a[1]) > 0 THEN Frac(SumSeq(distances), Len(distances)) ELSE Zero,
     num_matched |-> Len(a[1]),
     false_positives |-> n - Len(a[1]),
     false_negatives |-> m - Len(a[1])]

\* the dict returned for n ground-truth and m predicted points, given the
\* assignment a = <<gt_indices, pred_indices>> and its matched distances
per_label(n, m, a, distances) ==
    [average_euclidean_distance |->
        IF Len(a[1]) > 0 THEN Frac(SumSeq(distances), Len(distances)) ELSE Zero,
     num_matched |-> Len(a[1]),
     false_positives |-> m - Len(a[1]),
     false_negatives |-> n - Len(a[1])]

assigned(gts, preds, cost, a) ==
    per_label(Len(gts), Len(preds), a, matched_distances(cost, a))

costed(gts, preds, cost) == assigned(gts, preds, cost, linear_sum_assignment(cost))

compute_msa_per_label(gts, preds) == costed(gts, preds, cost_matrix(gts, preds))

\* ------------------------------------------------------------ the program
VARIABLES
    pc,                      \* position in compute_msa / summarize_msa
    n_samples,               \* samples of the corpus zipped so far
    used,                    \* size of the corpus consumed so far
    gt_labels, pred_labels,  \* the sample of the current iteration
    matched_ids, false_negative_labels, false_positive_labels,
    todo,                    \* labels the running for-loop has yet to visit
    metrics,                 \* <<>> before the first sample, else <<metrics>>
    all_metrics,
    gts, preds,              \* the compute_msa_per_label call of the last step:
    gt_indices, pred_indices,\* its arguments and locals, empty if it made none
    ret,                     \* <<>> or <<its return value>>
    pairs,                   \* history: count and total distance of the point
                             \* pairs matched so far in the corpus
    error,                   \* "none" or the exception raised
    summary                  \* <<>> or <<what summarize_msa returned>>

vars == <<pc, n_samples, used, gt_labels, pred_labels, matched_ids,
          false_negative_labels, false_positive_labels, todo, metrics,
          all_metrics, gts, preds, gt_indices, pred_indices, ret, pairs, error,
          summary>>

matcher_vars == <<gts, preds, gt_indices, pred_indices, ret>>
sample_vars == <<gt_labels, pred_labels, matched_ids>>

\* compute_msa_per_label has returned: its frame is gone
NoCall ==
    /\ gts' = <<>>
    /\ preds' = <<>>
    /\ gt_indices' = <<>>
    /\ pred_indices' = <<>>
    /\ ret' = <<>>

\* point lists of at most k points
Lists(S, k) == UNION {[1..l -> S] : l \in 0..k}

RECURSIVE SumLens(_, _)
SumLens(d, S) ==
    IF S = {} THEN 0
    ELSE LET l == CHOOSE x \in S : TRUE IN Len(d[l]) + SumLens(d, S \ {l})

\* size of a label-to-points mapping: its keys plus its points
DictSize(d) == Cardinality(DOMAIN d) + SumLens(d, DOMAIN d)

\* the label-to-points mappings of size at most r
Dicts(r) ==
    UNION {{d \in [G -> Lists(Points, MaxPts)] : DictSize(d) <= r} : G \in SUBSET Labels}

\* ------------------------------------------------------------ compute_msa
matched_ids_of(gt_ids, pred_ids) == gt_ids \cap pred_ids

false_negative_labels_swapped(gt_ids, pred_ids) == pred_ids \ gt_ids

false_negative_labels_of(gt_ids, pred_ids) == gt_ids \ pred_ids

false_positive_labels_all(gt_ids, pred_ids) == pred_ids

false_positive_labels_of(gt_ids, pred_ids) == pred_ids \ gt_ids

new_metrics_swapped(m_ids, fp_labels, fn_labels) ==
    [num_matched_labels |-> Cardinality(m_ids),
     false_positive_labels |-> Cardinality(fn_labels),
     false_negative_labels |-> Cardinality(fp_labels),
     point_metrics_per_label |-> <<>>]

\* the metrics dict of one sample; the counts are taken when it is built
new_metrics(m_ids, fp_labels, fn_labels) ==
    [num_matched_labels |-> Cardinality(m_ids),
     false_positive_labels |-> Cardinality(fp_labels),
     false_negative_labels |-> Cardinality(fn_labels),
     point_metrics_per_label |-> <<>>]

\* {"label": label, **compute_msa_per_label(gt_points, pred_points)}
matched_entry(label, r) ==
    [label |-> label,
     average_euclidean_distance |-> r.average_euclidean_distance,
     num_matched |-> r.num_matched,
     false_positives |-> r.false_positives,
     false_negatives |-> r.false_negatives]

fn_entry(label, gt_points) ==
    [label |-> label, average_euclidean_distance |-> Zero, num_matched |-> 0,
     false_positives |-> 0, false_negatives |-> Len(gt_points),
     precision |-> Zero, recall |-> Zero]

fp_entry(label, pred_points) ==
    [label |-> label, average_euclidean_distance |-> Zero, num_matched |-> 0,
     false_positives |-> Len(pred_points), false_negatives |-> 0,
     precision |-> Zero, recall |-> Zero]

append_entry(ms, e) ==
    <<[ms[1] EXCEPT !.point_metrics_per_label = Append(@, e)]>>

\* which branch of the if / elif / elif chain a matched label takes
branch_skip_empty(gt_points, pred_points) ==
    IF Len(gt_points) > 0 /\ Len(pred_points) > 0 THEN "match" ELSE "skip"

branch_gt_last(gt_points, pred_points) ==
    IF Len(gt_points) > 0 /\ Len(pred_points) > 0 THEN "match"
    ELSE IF Len(pred_points) <= 0 THEN "fp"
    ELSE IF Len(gt_points) <= 0 THEN "fn"
    ELSE "skip"

branch(gt_points, pred_points) ==
    IF Len(gt_points) > 0 /\ Len(pred_points) > 0 THEN "match"
    ELSE IF Len(gt_points) <= 0 THEN "fn"
    ELSE IF Len(pred_points) <= 0 THEN "fp"
    ELSE "skip"

\* ---------------------------------------------------------- summarize_msa
RECURSIVE total_labels_from(_, _)
total_labels_from(msa, acc) ==
    IF msa = <<>> THEN acc
    ELSE total_labels_from(Tail(msa),
            [matched |-> acc.matched + msa[1].num_matched_labels,
             fp |-> acc.fp + msa[1].false_positive_labels,
             fn |-> acc.fn + msa[1].false_negative_labels])

total_labels(msa) == total_labels_from(msa, [matched |-> 0, fp |-> 0, fn |-> 0])

RECURSIVE point_metrics_of(_)
point_metrics_of(msa) ==
    IF msa = <<>> THEN <<>>
    ELSE msa[1].point_metrics_per_label \o point_metrics_of(Tail(msa))

weight_none(point_metric) == point_metric.average_euclidean_distance

\* average_euclidean_distance * num_matched
weight(point_metric) ==
    RMul(point_metric.average_euclidean_distance, FromInt(point_metric.num_matched))

RECURSIVE total_points_from(_, _)
total_points_from(pms, acc) ==
    IF pms = <<>> THEN acc
    ELSE total_points_from(Tail(pms),
            [matched |-> acc.matched + pms[1].num_matched,
             fp |-> acc.fp + pms[1].false_positives,
             fn |-> acc.fn + pms[1].false_negatives,
             euclidean_distance |-> RAdd(acc.euclidean_distance, weight(pms[1]))])

total_points(msa) ==
    total_points_from(point_metrics_of(msa),
        [matched |-> 0, fp |-> 0, fn |-> 0, euclidean_distance |-> Zero])

\* matched / (matched + other) if other + matched > 0 else 0.0
ratio(matched, other) ==
    IF other + matched > 0
    THEN RDiv(FromInt(matched), FromInt(matched + other)) ELSE Zero

\* 2 * p * r / (p + r) if p + r > 0 else 0.0
f1(precision, recall) ==
    IF RPos(RAdd(precision, recall))
    THEN RDiv(RMul(FromInt(2), RMul(precision, recall)), RAdd(precision, recall))
    ELSE Zero

avg_euclidean_distance_zero(tp) ==
    IF tp.matched > 0 THEN RDiv(tp.euclidean_distance, FromInt(tp.matched)) ELSE Zero

avg_euclidean_distance(tp) ==
    IF tp.matched > 0 THEN RDiv(tp.euclidean_distance, FromInt(tp.matched)) ELSE Inf

label_precision(msa) == ratio(total_labels(msa).matched, total_labels(msa).fp)
label_recall(msa) == ratio(total_labels(msa).matched, total_labels(msa).fn)
label_f1(msa) == f1(label_precision(msa), label_recall(msa))
point_precision(msa) == ratio(total_points(msa).matched, total_points(msa).fp)
point_recall(msa) == ratio(total_points(msa).matched, total_points(msa).fn)
point_f1(msa) == f1(point_precision(msa), point_recall(msa))

\* some division of summarize_msa raises ZeroDivisionError
summarize_raises(msa) ==
    Raised \in {label_precision(msa), label_recall(msa), label_f1(msa),
                point_precision(msa), point_recall(msa), point_f1(msa),
                avg_euclidean_distance(total_points(msa))}

summarize_msa(msa) ==
    [label_metrics |->
        [precision |-> Round2(label_precision(msa)),
         recall |-> Round2(label_recall(msa)),
         f1 |-> Round2(label_f1(msa))],
     point_metrics |->
        [precision |-> Round2(point_precision(msa)),
         recall |-> Round2(point_recall(msa)),
         f1 |-> Round2(point_f1(msa)),
         avg_euclidean_distance |-> Round2(avg_euclidean_distance(total_points(msa)))]]

\* ---------------------------------------------------------------- actions
Init ==
    /\ pc = "for_sample"
    /\ n_samples = 0
    /\ used = 0
    /\ gt_labels = <<>>
    /\ pred_labels = <<>>
    /\ matched_ids = {}
    /\ false_negative_labels = {}
    /\ false_positive_labels = {}
    /\ todo = {}
    /\ metrics = <<>>
    /\ all_metrics = <<>>
    /\ gts = <<>>
    /\ preds = <<>>
    /\ gt_indices = <<>>
    /\ pred_indices = <<>>
    /\ ret = <<>>
    /\ pairs = [count |-> 0, distance |-> 0]
    /\ error = "none"
    /\ summary = <<>>

\* for gt_labels, pred_labels in zip(gt_list, pred_list): the next sample of
\* the corpus, up to the building of its metrics dict
ZipSample(gt, pred) ==
    /\ gt_labels' = gt
    /\ pred_labels' = pred
    /\ used' = used + DictSize(gt) + DictSize(pred)
    /\ matched_ids' = matched_ids_of(DOMAIN gt, DOMAIN pred)
    /\ false_negative_labels' = false_negative_labels_of(DOMAIN gt, DOMAIN pred)
    /\ false_positive_labels' = false_positive_labels_of(DOMAIN gt, DOMAIN pred)
    /\ metrics' = <<new_metrics(matched_ids', false_positive_labels',
                                false_negative_labels')>>
    /\ todo' = matched_ids'
    /\ n_samples' = n_samples + 1
    /\ pc' = "for_matched"
    /\ UNCHANGED <<all_metrics, error, summary>>
    /\ NoCall /\ UNCHANGED pairs

\* any sample that fits the corpus size
Zip ==
    /\ pc = "for_sample"
    /\ n_samples < MaxSamples
    /\ \E gt \in Dicts(MaxSize - used) :
          \E pred \in Dicts(MaxSize - used - DictSize(gt)) : ZipSample(gt, pred)

\* the call compute_msa_per_label(gt_points, pred_points) and the append of
\* its result; a = <<gt_indices, pred_indices>>, r = the dict it returns
Frame(label, gt_points, pred_points, a, r) ==
    /\ gts' = gt_points
    /\ preds' = pred_points
    /\ gt_indices' = a[1]
    /\ pred_indices' = a[2]
    /\ ret' = <<r>>
    /\ pairs' = [count |-> pairs.count + Len(a[1]),
                 distance |-> pairs.distance
                    + SumSeq(matched_distances(cost_matrix(gt_points, pred_points), a))]
    /\ metrics' = append_entry(metrics, matched_entry(label, r))

Call(label, gt_points, pred_points) ==
    Frame(label, gt_points, pred_points,
          linear_sum_assignment(cost_matrix(gt_points, pred_points)),
          compute_msa_per_label(gt_points, pred_points))

\* the body of the loop for a label that takes branch b
Visit(label, b) ==
    /\ todo' = todo \ {label}
    /\ IF b = "match"
       THEN Call(label, gt_labels[label], pred_labels[label])
       ELSE NoCall /\ UNCHANGED <<metrics, pairs>>
    /\ false_negative_labels' =
          IF b = "fn" THEN false_negative_labels \cup {label}
          ELSE false_negative_labels
    /\ false_positive_labels' =
          IF b = "fp" THEN false_positive_labels \cup {label}
          ELSE false_positive_labels

\* one iteration of: for label in matched_ids
MatchedLabel ==
    /\ pc = "for_matched"
    /\ \E label \in todo : Visit(label, branch(gt_labels[label], pred_labels[label]))
    /\ UNCHANGED <<pc, n_samples, used, sample_vars, all_metrics, error, summary>>

\* the loop over matched_ids is exhausted; the loop over the fn set starts
EndMatched ==
    /\ pc = "for_matched"
    /\ todo = {}
    /\ pc' = "for_fn"
    /\ todo' = false_negative_labels
    /\ UNCHANGED <<n_samples, used, sample_vars, false_negative_labels,
                   false_positive_labels, metrics, all_metrics,
                   error, summary>>
    /\ NoCall /\ UNCHANGED pairs

\* one iteration of: for label in false_negative_labels
FnLabel ==
    /\ pc = "for_fn"
    /\ \E label \in todo :
         IF label \in DOMAIN gt_labels
         THEN /\ metrics' = append_entry(metrics, fn_entry(label, gt_labels[label]))
              /\ todo' = todo \ {label}
              /\ UNCHANGED <<pc, error>>
         ELSE /\ error' = "KeyError"
              /\ pc' = "failed"
              /\ UNCHANGED <<metrics, todo>>
    /\ UNCHANGED <<n_samples, used, sample_vars, false_negative_labels,
                   false_positive_labels, all_metrics, summary>>
    /\ NoCall /\ UNCHANGED pairs

EndFn ==
    /\ pc = "for_fn"
    /\ todo = {}
    /\ pc' = "for_fp"
    /\ todo' = false_positive_labels
    /\ UNCHANGED <<n_samples, used, sample_vars, false_negative_labels,
                   false_positive_labels, metrics, all_metrics,
                   error, summary>>
    /\ NoCall /\ UNCHANGED pairs

\* one iteration of: for label in false_positive_labels
FpLabel ==
    /\ pc = "for_fp"
    /\ \E label \in todo :
         IF label \in DOMAIN pred_labels
         THEN /\ metrics' = append_entry(metrics, fp_entry(label, pred_labels[label]))
              /\ todo' = todo \ {label}
              /\ UNCHANGED <<pc, error>>
         ELSE /\ error' = "KeyError"
              /\ pc' = "failed"
              /\ UNCHANGED <<metrics, todo>>
    /\ UNCHANGED <<n_samples, used, sample_vars, false_negative_labels,
                   false_positive_labels, all_metrics, summary>>
    /\ NoCall /\ UNCHANGED pairs

\* all_metrics.append(metrics), the end of one iteration of the sample loop
AppendMetrics ==
    /\ pc = "for_fp"
    /\ todo = {}
    /\ all_metrics' = Append(all_metrics, metrics[1])
    /\ pc' = "for_sample"
    \* the names of this iteration are dead until Zip rebinds them
    /\ gt_labels' = <<>>
    /\ pred_labels' = <<>>
    /\ matched_ids' = {}
    /\ false_negative_labels' = {}
    /\ false_positive_labels' = {}
    /\ metrics' = <<>>
    /\ UNCHANGED <<n_samples, used, todo, error, summary>>
    /\ NoCall /\ UNCHANGED pairs

\* the corpus is exhausted: return all_metrics
Return ==
    /\ pc = "for_sample"
    /\ pc' = "returned"
    /\ UNCHANGED <<n_samples, used, sample_vars, false_negative_labels,
                   false_positive_labels, todo, metrics, all_metrics,
                   error, summary>>
    /\ NoCall /\ UNCHANGED pairs

\* summary = summarize_msa(msa)
Summarize ==
    /\ pc = "returned"
    /\ IF summarize_raises(all_metrics)
       THEN /\ error' = "ZeroDivisionError"
            /\ pc' = "failed"
            /\ UNCHANGED summary
       ELSE /\ summary' = <<summarize_msa(all_metrics)>>
            /\ pc' = "done"
            /\ UNCHANGED error
    /\ UNCHANGED <<n_samples, used, sample_vars, false_negative_labels,
                   false_positive_labels, todo, metrics, all_metrics>>
    /\ NoCall /\ UNCHANGED pairs

Next ==
    \/ Zip
    \/ MatchedLabel
    \/ EndMatched
    \/ FnLabel
    \/ EndFn
    \/ FpLabel
    \/ AppendMetrics
    \/ Return
    \/ Summarize

Spec == Init /\ [][Next]_vars

\* ------------------------------------------- corpora of matched points
\* Samples whose label "A" has points on both sides, with or without a
\* label "B" on one side only; the corpus is bounded by MaxPairsSize.
NonEmpty(S) == {l \in S : Len(l) > 0}

PairDicts(r) == {d \in Dicts(r) : "A" \in DOMAIN d /\ Len(d["A"]) > 0}

ZipPairs ==
    /\ pc = "for_sample"
    /\ n_samples < MaxSamples
    /\ \E gt \in PairDicts(MaxPairsSize - used) :
          \E pred \in PairDicts(MaxPairsSize - used - DictSize(gt)) :
             /\ ~ ("B" \in DOMAIN gt /\ "B" \in DOMAIN pred)
             /\ ZipSample(gt, pred)

NextPairs ==
    \/ ZipPairs
    \/ MatchedLabel
    \/ EndMatched
    \/ FnLabel
    \/ EndFn
    \/ FpLabel
    \/ AppendMetrics
    \/ Return
    \/ Summarize

SpecPairs == Init /\ [][NextPairs]_vars

\* ------------------------------------------------ the matcher on its own
InitMatch ==
    /\ pc = "per_label"
    /\ gts \in NonEmpty(Lists(MatchPoints, MaxN))
    /\ preds \in NonEmpty(Lists(MatchPoints, MaxN))
    /\ n_samples = 0
    /\ used = 0
    /\ gt_labels = <<>>
    /\ pred_labels = <<>>
    /\ matched_ids = {}
    /\ false_negative_labels = {}
    /\ false_positive_labels = {}
    /\ todo = {}
    /\ metrics = <<>>
    /\ all_metrics = <<>>
    /\ gt_indices = <<>>
    /\ pred_indices = <<>>
    /\ ret = <<>>
    /\ pairs = [count |-> 0, distance |-> 0]
    /\ error = "none"
    /\ summary = <<>>

\* compute_msa_per_label(gts, preds)
Returns(a, r) ==
    /\ gt_indices' = a[1]
    /\ pred_indices' = a[2]
    /\ ret' = <<r>>

PerLabel ==
    /\ pc = "per_label"
    /\ Returns(linear_sum_assignment(cost_matrix(gts, preds)),
               compute_msa_per_label(gts, preds))
    /\ pc' = "per_label_done"
    /\ UNCHANGED <<gts, preds, n_samples, used, sample_vars, false_negative_labels,
                   false_positive_labels, todo, metrics, all_metrics, pairs, error,
                   summary>>

NextMatch == PerLabel

SpecMatch == InitMatch /\ [][NextMatch]_vars

\* ----------------------------------------------------------- properties
\* the entries appended so far for the sample in hand
entries == IF metrics = <<>> THEN <<>> ELSE metrics[1].point_metrics_per_label

\* the number of points of a label on one side, 0 for a label absent there
NPoints(d, l) == IF l \in DOMAIN d THEN Len(d[l]) ELSE 0

\* the three loops over the labels of the sample in hand are through
SampleDone == pc = "for_fp" /\ todo = {}

BothSides == DOMAIN gt_labels \cap DOMAIN pred_labels

EntryCount(l) == Cardinality({k \in 1..Len(entries) : entries[k].label = l})

\* an entry that came from compute_msa_per_label, not from the fn / fp loops
FromMatcher(e) == "precision" \notin DOMAIN e

\* C1: every entry of point_metrics_per_label conserves the points of its
\* label: num_matched + false_positives is the number of predicted points
\* and num_matched + false_negatives the number of ground-truth points.
Conservation ==
    \A k \in 1..Len(entries) :
        /\ entries[k].num_matched + entries[k].false_positives
              = NPoints(pred_labels, entries[k].label)
        /\ entries[k].num_matched + entries[k].false_negatives
              = NPoints(gt_labels, entries[k].label)

\* C2 as stated: the label counts of a finished sample are the sizes of the
\* fp and fn sets after reclassification.
LabelCountsAfterReclassification ==
    SampleDone =>
        /\ metrics[1].false_positive_labels = Cardinality(false_positive_labels)
        /\ metrics[1].false_negative_labels = Cardinality(false_negative_labels)
        /\ metrics[1].num_matched_labels = Cardinality(BothSides)

\* C2 amended: the label counts are the sizes of the key intersection and of
\* the two key differences, taken before the loop over the matched labels;
\* the labels that loop moves into the fn or fp set are not counted, so each
\* set ends larger than its count by the number of labels moved into it.
LabelCountsBeforeReclassification ==
    metrics # <<>> =>
        /\ metrics[1].num_matched_labels = Cardinality(BothSides)
        /\ metrics[1].false_positive_labels
              = Cardinality(DOMAIN pred_labels \ DOMAIN gt_labels)
        /\ metrics[1].false_negative_labels
              = Cardinality(DOMAIN gt_labels \ DOMAIN pred_labels)
        /\ SampleDone =>
              /\ Cardinality(false_negative_labels)
                    = metrics[1].false_negative_labels
                      + Cardinality({l \in BothSides : gt_labels[l] = <<>>})
              /\ Cardinality(false_positive_labels)
                    = metrics[1].false_positive_labels
                      + Cardinality({l \in BothSides :
                                        gt_labels[l] # <<>> /\ pred_labels[l] = <<>>})

\* a finished sample with a label moved into the fn set and one into the fp set
BothReclassified ==
    /\ SampleDone
    /\ Cardinality(false_negative_labels) > metrics[1].false_negative_labels
    /\ Cardinality(false_positive_labels) > metrics[1].false_positive_labels

\* the one-to-one maps of 1..k into 1..m
Injections(k, m) == {f \in [1..k -> 1..m] : \A a, b \in 1..k : a # b => f[a] # f[b]}

\* the total costs of all one-to-one pairings of size min(n, m)
PairingCosts(cost) ==
    IF Len(cost) <= Len(cost[1])
    THEN {SumSeq([i \in 1..Len(cost) |-> cost[i][f[i]]]) :
             f \in Injections(Len(cost), Len(cost[1]))}
    ELSE {SumSeq([j \in 1..Len(cost[1]) |-> cost[g[j]][j]]) :
             g \in Injections(Len(cost[1]), Len(cost))}

MinPairingCost(cost) ==
    CHOOSE c \in PairingCosts(cost) : \A d \in PairingCosts(cost) : c <= d

SelectedCost == SumSeq(matched_distances(cost_matrix(gts, preds),
                                         <<gt_indices, pred_indices>>))

\* C3: the pairs the matcher selects are a one-to-one pairing of size
\* min(n, m) of least total cost among all such pairings, and the average
\* distance times num_matched is that least cost.
OptimalPairing ==
    pc = "per_label_done" =>
        /\ Len(gt_indices) = Min(Len(gts), Len(preds))
        /\ Len(pred_indices) = Len(gt_indices)
        /\ \A k \in 1..Len(gt_indices) :
              /\ gt_indices[k] \in 1..Len(gts)
              /\ pred_indices[k] \in 1..Len(preds)
              /\ \A h \in 1..Len(gt_indices) :
                    h # k => /\ gt_indices[h] # gt_indices[k]
                             /\ pred_indices[h] # pred_indices[k]
        /\ SelectedCost = MinPairingCost(cost_matrix(gts, preds))
        /\ RMul(ret[1].average_euclidean_distance, FromInt(ret[1].num_matched))
              = FromInt(MinPairingCost(cost_matrix(gts, preds)))

\* a call where pairing each point with its nearest free one costs more
GreedyIsWorse ==
    /\ pc = "per_label_done"
    /\ Len(gts) >= 2
    /\ Len(preds) >= 2
    /\ SumSeq(matched_distances(cost_matrix(gts, preds),
                 linear_sum_assignment_greedy(cost_matrix(gts, preds))))
          > SelectedCost

\* C4: for non-empty lists of n ground-truth and m predicted points the
\* matcher returns num_matched = min(n, m), false_positives = m - num_matched
\* and false_negatives = n - num_matched, whatever the distances; neither is
\* negative and at most one of them is not zero.
MatcherCounts ==
    pc = "per_label_done" =>
        /\ ret[1].num_matched = Min(Len(gts), Len(preds))
        /\ ret[1].false_positives = Len(preds) - Min(Len(gts), Len(preds))
        /\ ret[1].false_negatives = Len(gts) - Min(Len(gts), Len(preds))
        /\ ret[1].false_positives >= 0
        /\ ret[1].false_negatives >= 0
        /\ ret[1].false_positives = 0 \/ ret[1].false_negatives = 0

\* a call with more ground-truth than predicted points, all pairs far apart
FarUnequalLists ==
    /\ pc = "per_label_done"
    /\ Len(gts) > Len(preds)
    /\ ret[1].false_negatives > 0
    /\ \A i \in 1..Len(gts) : \A j \in 1..Len(preds) : norm(gts[i], preds[j]) >= 5

\* C5: point_metrics_per_label of a finished sample has exactly one entry
\* for each label that is a key of either side and none for any other label;
\* while the sample is in hand no label has two entries.
OneEntryPerLabel ==
    /\ \A k \in 1..Len(entries) :
          /\ entries[k].label \in DOMAIN gt_labels \cup DOMAIN pred_labels
          /\ EntryCount(entries[k].label) = 1
    /\ SampleDone =>
          \A l \in DOMAIN gt_labels \cup DOMAIN pred_labels : EntryCount(l) = 1

\* a finished sample with a label empty on both sides and a one-sided label
EmptyOnBothSides ==
    /\ SampleDone
    /\ \E l \in BothSides : gt_labels[l] = <<>> /\ pred_labels[l] = <<>>
    /\ DOMAIN gt_labels # DOMAIN pred_labels

\* C6: the matcher is called only with two non-empty point lists; after the
\* loop over the matched labels a label of both sides with no ground-truth
\* points is in the fn set and not in the fp set (also when it has no
\* predicted points either), and one with ground-truth points and no
\* predicted points is in the fp set.
EmptyNeverMatched ==
    /\ ret # <<>> => gts # <<>> /\ preds # <<>>
    /\ \A k \in 1..Len(entries) :
          FromMatcher(entries[k]) =>
              /\ entries[k].label \in BothSides
              /\ gt_labels[entries[k].label] # <<>>
              /\ pred_labels[entries[k].label] # <<>>
    /\ pc \in {"for_fn", "for_fp"} =>
          \A l \in BothSides :
              /\ gt_labels[l] = <<>> =>
                    l \in false_negative_labels /\ l \notin false_positive_labels
              /\ gt_labels[l] # <<>> /\ pred_labels[l] = <<>> =>
                    l \in false_positive_labels /\ l \notin false_negative_labels
              /\ gt_labels[l] # <<>> /\ pred_labels[l] # <<>> =>
                    l \notin false_negative_labels \cup false_positive_labels

\* the matched labels are through: one is empty on both sides, another has
\* ground-truth points only
EmptyListsClassified ==
    /\ pc = "for_fn"
    /\ \E l \in BothSides : gt_labels[l] = <<>> /\ pred_labels[l] = <<>>
    /\ \E l \in BothSides : gt_labels[l] # <<>> /\ pred_labels[l] = <<>>

\* C7: in the summary a ratio whose denominator is zero is 0.0 and no
\* division raises; avg_euclidean_distance is infinite exactly when no
\* point is matched; the empty corpus yields zeros and infinity.
ZeroDivisionDefaults ==
    /\ error # "ZeroDivisionError"
    /\ pc = "done" =>
          /\ total_labels(all_metrics).matched + total_labels(all_metrics).fp = 0
                => summary[1].label_metrics.precision = Zero
          /\ total_labels(all_metrics).matched + total_labels(all_metrics).fn = 0
                => summary[1].label_metrics.recall = Zero
          /\ ~ RPos(RAdd(label_precision(all_metrics), label_recall(all_metrics)))
                => summary[1].label_metrics.f1 = Zero
          /\ total_points(all_metrics).matched + total_points(all_metrics).fp = 0
                => summary[1].point_metrics.precision = Zero
          /\ total_points(all_metrics).matched + total_points(all_metrics).fn = 0
                => summary[1].point_metrics.recall = Zero
          /\ ~ RPos(RAdd(point_precision(all_metrics), point_recall(all_metrics)))
                => summary[1].point_metrics.f1 = Zero
          /\ summary[1].point_metrics.avg_euclidean_distance = Inf
                <=> total_points(all_metrics).matched = 0
          /\ all_metrics = <<>> =>
                summary[1] = [label_metrics |->
                                 [precision |-> Zero, recall |-> Zero, f1 |-> Zero],
                              point_metrics |->
                                 [precision |-> Zero, recall |-> Zero, f1 |-> Zero,
                                  avg_euclidean_distance |-> Inf]]

\* a summary of a corpus with samples in which nothing is matched and
\* nothing is a false positive
NothingMatched ==
    /\ pc = "done"
    /\ all_metrics # <<>>
    /\ total_labels(all_metrics).matched + total_labels(all_metrics).fp = 0
    /\ total_points(all_metrics).matched + total_points(all_metrics).fp = 0
    /\ total_points(all_metrics).fn > 0

\* no lookup misses, no exception is raised, the summary holds numbers
NoFailure ==
    /\ error = "none"
    /\ pc # "failed"
    /\ pc = "for_fn" => todo \subseteq DOMAIN gt_labels
    /\ pc = "for_fp" => todo \subseteq DOMAIN pred_labels
    /\ pc = "done" =>
          /\ \A f \in {"precision", "recall", "f1"} :
                /\ IsNumber(summary[1].label_metrics[f])
                /\ IsNumber(summary[1].point_metrics[f])
          /\ summary[1].point_metrics.avg_euclidean_distance # Raised

\* what is left to do: the samples to come, the loops of the sample in hand
\* and the labels of the running loop
Remaining ==
    IF pc \in {"for_matched", "for_fn", "for_fp"}
    THEN 3 + 4 * (Cardinality(Labels) + 1) * (MaxSamples - n_samples)
           + (Cardinality(Labels) + 1)
               * (IF pc = "for_matched" THEN 3 ELSE IF pc = "for_fn" THEN 2 ELSE 1)
           + Cardinality(todo)
    ELSE IF pc = "for_sample"
    THEN 3 + 4 * (Cardinality(Labels) + 1) * (MaxSamples - n_samples)
    ELSE IF pc = "returned" THEN 2
    ELSE 0

\* C8: compute_msa followed by summarize_msa never fails and finishes: every
\* lookup of the fn loop and of the fp loop hits a key, no exception is
\* raised, the summary holds a number in every field, and every step leaves
\* less to do.
NeverFails == []NoFailure /\ [][Remaining' < Remaining]_vars

\* a summary of two samples with labels moved into the fn and the fp set
SummaryAfterReclassification ==
    /\ pc = "done"
    /\ Len(all_metrics) = 2
    /\ \E i \in 1..2 :
          Len(all_metrics[i].point_metrics_per_label)
             > all_metrics[i].num_matched_labels
    /\ \E i \in 1..2 : \E k \in 1..Len(all_metrics[i].point_metrics_per_label) :
          FromMatcher(all_metrics[i].point_metrics_per_label[k])

RECURSIVE WeightedSum(_)
WeightedSum(pms) ==
    IF pms = <<>> THEN Zero
    ELSE RAdd(RMul(pms[1].average_euclidean_distance, FromInt(pms[1].num_matched)),
              WeightedSum(Tail(pms)))

RECURSIVE MatchedSum(_)
MatchedSum(pms) == IF pms = <<>> THEN 0 ELSE pms[1].num_matched + MatchedSum(Tail(pms))

\* C9: when a point is matched, the corpus average distance before rounding
\* is the sum over all entries of average_euclidean_distance x num_matched
\* divided by the sum of num_matched, which is the total distance of all
\* matched point pairs of the corpus divided by their number.
WeightedByPairs ==
    pc = "done" /\ pairs.count > 0 =>
        /\ MatchedSum(point_metrics_of(all_metrics)) = pairs.count
        /\ avg_euclidean_distance(total_points(all_metrics))
              = RDiv(WeightedSum(point_metrics_of(all_metrics)),
                     FromInt(MatchedSum(point_metrics_of(all_metrics))))
        /\ avg_euclidean_distance(total_points(all_metrics))
              = Frac(pairs.distance, pairs.count)
        /\ summary[1].point_metrics.avg_euclidean_distance
              = Round2(Frac(pairs.distance, pairs.count))

\* a summary over two matcher entries of different weight and different
\* average distance, and an fn / fp entry
UnequalWeights ==
    /\ pc = "done"
    /\ \E a, b, c \in 1..Len(point_metrics_of(all_metrics)) :
          /\ point_metrics_of(all_metrics)[a].num_matched = 2
          /\ point_metrics_of(all_metrics)[b].num_matched = 1
          /\ point_metrics_of(all_metrics)[a].average_euclidean_distance
                # point_metrics_of(all_metrics)[b].average_euclidean_distance
          /\ point_metrics_of(all_metrics)[c].num_matched = 0

\* C10: for a finished sample num_matched_labels + false_positive_labels is
\* the number of predicted label keys, num_matched_labels +
\* false_negative_labels the number of ground-truth label keys, and the
\* three counts add up to the number of entries of point_metrics_per_label.
LabelPartition ==
    SampleDone =>
        /\ metrics[1].num_matched_labels + metrics[1].false_positive_labels
              = Cardinality(DOMAIN pred_labels)
        /\ metrics[1].num_matched_labels + metrics[1].false_negative_labels
              = Cardinality(DOMAIN gt_labels)
        /\ metrics[1].num_matched_labels + metrics[1].false_positive_labels
              + metrics[1].false_negative_labels = Len(entries)

\* a finished sample with an emptied label on both sides and a one-sided label
PartitionWithEmptyList ==
    /\ SampleDone
    /\ \E l \in BothSides : gt_labels[l] # <<>> /\ pred_labels[l] = <<>>
    /\ DOMAIN pred_labels \ DOMAIN gt_labels # {}

====
